---- MODULE Spec2Model ----
(***************************************************************************)
(* Hierarchical service composition and lifecycle framework of vldmcp      *)
(* (src/src/vldmcp/service/base.py): Service, MergedService, dispatch_any. *)
(*                                                                         *)
(* Python strings that the code inspects (names, children keys, attribute  *)
(* names) are sequences of tokens, so that str.startswith and the          *)
(* f"_merged_{id(service)}" formatting are computed, not assumed.          *)
(* Objects live in the arena svc; id(service) is the arena index and the   *)
(* reference None is 0.                                                    *)
(***************************************************************************)
EXTENDS Integers, Sequences, FiniteSets, TLC

VARIABLES svc, stack, call, tasks

vars == <<svc, stack, call, tasks>>

\* ---------------------------------------------------------------- bounds
MaxNodes == 3

MaxPlain == 3

\* two merges over the plain services, as (a + b) + c takes
MaxMergeNodes == MaxPlain + 2

MaxRunNodes == 3

MaxTreeNodes == 3

MaxCands == 3

MaxPathNodes == 4

MaxIdLen == 2

MaxHosted == 3

\* ------------------------------------------------------- strings and keys
NameA == <<"a">>

NameB == <<"b">>

Names == {NameA, NameB}

\* attributes that a concrete service class may define, as Service1 and
\* Service2 of the tests define shared_attr: a public one, which a child may
\* also be named after, and one that starts with the reserved marker
ReservedB == <<"_", "b">>

Caps == {NameB}

AttrNames == Names \cup {ReservedB}

Underscore == <<"_">>

MergedPrefix == <<"_", "merged_">>

DefaultMergedName == <<"merged">>

EmptyStr == <<>>

StartsWith(s, p) == Len(s) >= Len(p) /\ SubSeq(s, 1, Len(p)) = p

IdStr(i) == <<"1", "2", "3", "4", "5", "6", "7", "8", "9">>[i]

MergedKey(i) == MergedPrefix \o <<IdStr(i)>>

\* ------------------------------------------------------------ the arena
None == 0

Ids == 1..Len(svc)

\* dict[key] = ref on an insertion-ordered dict: an existing key keeps its
\* position and gets the new value, a new key is appended.
DictSet(d, key, ref) ==
  IF \E i \in 1..Len(d) : d[i].key = key
  THEN [i \in 1..Len(d) |-> IF d[i].key = key THEN [key |-> key, ref |-> ref] ELSE d[i]]
  ELSE Append(d, [key |-> key, ref |-> ref])

HasKey(d, key) == \E i \in 1..Len(d) : d[i].key = key

DictGet(d, key) == d[CHOOSE i \in 1..Len(d) : d[i].key = key].ref

Values(d) == [i \in 1..Len(d) |-> d[i].ref]

ChildSet(n) == {svc[n].children[i].ref : i \in 1..Len(svc[n].children)}

RECURSIVE Reach(_)
Reach(S) ==
  LET T == S \cup UNION {ChildSet(n) : n \in S}
  IN IF T = S THEN S ELSE Reach(T)

\* n together with everything below it
Subtree(n) == Reach({n})

Descendants(n) == Reach(ChildSet(n))

status(n) == IF svc[n].running THEN "running" ELSE "stopped"

\* ---------------------------------------------------------- construction
NewObject(cls, name, parent, attrs) ==
  [cls |-> cls, name |-> name, path |-> name, parent |-> parent,
   children |-> <<>>, running |-> FALSE, attrs |-> attrs]

\* Service.__init__(parent, name): the new object registers itself in
\* parent.children under its name, whatever was stored there before.
Init__(arena, cls, name, parent, attrs) ==
  LET self == Len(arena) + 1
      a1 == Append(arena, NewObject(cls, name, parent, attrs))
  IN IF parent # None
     THEN [a1 EXCEPT ![parent].children = DictSet(@, name, self)]
     ELSE a1

AllRunning(S) == \A d \in S : svc[d].running

NoneRunning(S) == \A d \in S : ~svc[d].running

\* the record of the last operation called from outside and how it ended;
\* full: every node of n's subtree was running when it was called
NoResult == [ok |-> FALSE, kind |-> "none", ref |-> None]

Called(op, n, st) ==
  [op |-> op, node |-> n, status |-> st, by |-> None,
   full |-> (n \in Ids /\ AllRunning(Subtree(n))),
   arg |-> EmptyStr, operands |-> <<>>, result |-> NoResult]

NewService(cls, name, parent, attrs) ==
  /\ stack = <<>>
  /\ svc' = Init__(svc, cls, name, parent, attrs)
  /\ UNCHANGED <<stack, tasks>>

\* ------------------------------------------------------------------ merge
IsMerged(n) == svc[n].cls = "MergedService"

RECURSIVE SelectMerged(_)
SelectMerged(d) ==
  IF d = <<>> THEN <<>>
  ELSE (IF StartsWith(Head(d).key, MergedPrefix) THEN <<Head(d).ref>> ELSE <<>>)
       \o SelectMerged(Tail(d))

\* [svc for key, svc in x.children.items() if key.startswith("_merged_")]
Members(n) == SelectMerged(svc[n].children)

\* the loop body of MergedService.__init__ for the k-th service of the list
RECURSIVE AdoptAll(_, _, _, _)
AdoptAll(arena, self, services, k) ==
  IF k > Len(services) THEN arena
  ELSE LET s == services[k]
           first == services[1]
           a1 == [arena EXCEPT ![s].parent = self,
                               ![s].path = IF s # first THEN EmptyStr ELSE @]
           a2 == [a1 EXCEPT ![self].children = DictSet(@, MergedKey(s), s)]
       IN AdoptAll(a2, self, services, k + 1)

\* a composite that takes its path segment from the name of the first service
MergedService__init__PathFromName(arena, services) ==
  LET self == Len(arena) + 1
      first == IF services # <<>> THEN services[1] ELSE None
      name0 == IF first # None THEN arena[first].name ELSE DefaultMergedName
      name == IF name0 # EmptyStr THEN name0 ELSE DefaultMergedName
      a1 == Init__(arena, "MergedService", name, None, {})
      a2 == [a1 EXCEPT ![self].path = name]
  IN AdoptAll(a2, self, services, 1)

MergedService__init__(arena, services) ==
  LET self == Len(arena) + 1
      first == IF services # <<>> THEN services[1] ELSE None
      name0 == IF first # None THEN arena[first].name ELSE DefaultMergedName
      name == IF name0 # EmptyStr THEN name0 ELSE DefaultMergedName
      a1 == Init__(arena, "MergedService", name, None, {})
      a2 == [a1 EXCEPT ![self].path = IF first # None THEN arena[first].path ELSE EmptyStr]
  IN AdoptAll(a2, self, services, 1)

\* a merge that nests its operands instead of taking their members
AddServicesNested(x, y) == <<x, y>>

\* a merge that puts the plain operand after the members of the composite
\* one, whichever side it stands on
AddServicesPlainLast(x, y) ==
  IF IsMerged(y) THEN Members(y) \o <<x>>
  ELSE IF IsMerged(x) THEN Members(x) \o <<y>>
  ELSE <<x, y>>

\* Service.__add__: the list of services handed to MergedService
AddServices(x, y) ==
  IF IsMerged(y) THEN <<x>> \o Members(y)
  ELSE IF IsMerged(x) THEN Members(x) \o <<y>>
  ELSE <<x, y>>

Add(x, y) ==
  /\ stack = <<>>
  /\ svc' = MergedService__init__(svc, AddServices(x, y))
  /\ UNCHANGED <<stack, tasks>>

\* ------------------------------------------------- attribute resolution
\* What getattr(obj, name) yields: the attribute that the class of an object
\* defines (kind "attr", ref the object whose class defines it), a child
\* (kind "child", ref the child), or AttributeError (ok = FALSE).
Found(kind, ref) == [ok |-> TRUE, kind |-> kind, ref |-> ref]

AttributeError == [ok |-> FALSE, kind |-> "AttributeError", ref |-> None]

Reversed(q) == [i \in 1..Len(q) |-> q[Len(q) + 1 - i]]

\* a plain node that forwards nothing to its children
Service__getattr__NoForward(n, name) == AttributeError

\* Service.__getattr__
Service__getattr__(n, name) ==
  IF HasKey(svc[n].children, name)
  THEN Found("child", DictGet(svc[n].children, name))
  ELSE AttributeError

RECURSIVE GetAttr(_, _)
RECURSIVE FirstFound(_, _, _)

\* for service in order: try: return getattr(service, name)
\*                       except AttributeError: continue
FirstFound(order, name, k) ==
  IF k > Len(order) THEN AttributeError
  ELSE IF GetAttr(order[k], name).ok THEN GetAttr(order[k], name)
  ELSE FirstFound(order, name, k + 1)

\* the order in which the members are tried, first to last
SearchOrderForward(n) == Members(n)

\* for service in reversed(services)
SearchOrder(n) == Reversed(Members(n))

\* a resolver that looks at the ordinary children before the members
MergedService__getattr__ChildrenFirst(n, name) ==
  IF StartsWith(name, Underscore) THEN AttributeError
  ELSE IF HasKey(svc[n].children, name)
       THEN Found("child", DictGet(svc[n].children, name))
  ELSE IF FirstFound(SearchOrder(n), name, 1).ok
       THEN FirstFound(SearchOrder(n), name, 1)
  ELSE AttributeError

\* a resolver without the test for the reserved marker
MergedService__getattr__NoReserved(n, name) ==
  IF FirstFound(SearchOrder(n), name, 1).ok
  THEN FirstFound(SearchOrder(n), name, 1)
  ELSE IF HasKey(svc[n].children, name)
       THEN Found("child", DictGet(svc[n].children, name))
  ELSE AttributeError

\* MergedService.__getattr__
MergedService__getattr__(n, name) ==
  IF StartsWith(name, Underscore) THEN AttributeError
  ELSE IF FirstFound(SearchOrder(n), name, 1).ok
       THEN FirstFound(SearchOrder(n), name, 1)
  ELSE IF HasKey(svc[n].children, name)
       THEN Found("child", DictGet(svc[n].children, name))
  ELSE AttributeError

\* getattr(n, name): the ordinary lookup finds what the class of n defines,
\* anything else goes to __getattr__
GetAttr(n, name) ==
  IF name \in svc[n].attrs THEN Found("attr", n)
  ELSE IF IsMerged(n) THEN MergedService__getattr__(n, name)
  ELSE Service__getattr__(n, name)

ResolveAttr(n, name) ==
  /\ stack = <<>>
  /\ call' = [Called("getattr", n, IF GetAttr(n, name).ok THEN "returned" ELSE "raised")
                EXCEPT !.arg = name, !.result = GetAttr(n, name), !.full = FALSE]
  /\ UNCHANGED <<svc, stack, tasks>>

\* ------------------------------------------------- start / stop, stepwise
\* start() and stop() are synchronous: while a call is on the stack no other
\* operation runs.  A frame is one activation of start() or stop(); a machine
\* state m is the arena together with the stack.
\* was: the value of _running when the call was entered
Frame(op, n, was) == [op |-> op, node |-> n, pc |-> "enter", i |-> 1, was |-> was]

TopOf(k) == k[Len(k)]

SetTopOf(k, f) == [k EXCEPT ![Len(k)] = f]

Top == TopOf(stack)

\* start() that marks the node and forgets its children
StartEnterNoCascade(m) ==
  [svc |-> [m.svc EXCEPT ![TopOf(m.stack).node].running = TRUE],
   stack |-> SetTopOf(m.stack, [TopOf(m.stack) EXCEPT !.pc = "ret"])]

\* Service.start, line 40: self._running = True, before the loop
StartEnter(m) ==
  [svc |-> [m.svc EXCEPT ![TopOf(m.stack).node].running = TRUE],
   stack |-> SetTopOf(m.stack, [TopOf(m.stack) EXCEPT !.pc = "loop"])]

\* stop() that clears the flag before its children are stopped
StopEnterClearsFirst(m) ==
  [svc |-> [m.svc EXCEPT ![TopOf(m.stack).node].running = FALSE],
   stack |-> SetTopOf(m.stack, [TopOf(m.stack) EXCEPT !.pc = "loop"])]

\* Service.stop enters its loop without touching _running
StopEnter(m) ==
  [svc |-> m.svc,
   stack |-> SetTopOf(m.stack, [TopOf(m.stack) EXCEPT !.pc = "loop"])]

\* for service in self.children.values(): service.start() / service.stop()
LoopCall(m) ==
  LET f == TopOf(m.stack)
      c == m.svc[f.node].children[f.i].ref
  IN [svc |-> m.svc,
      stack |-> Append(SetTopOf(m.stack, [f EXCEPT !.i = @ + 1]),
                       Frame(f.op, c, m.svc[c].running))]

\* the loop of start() is exhausted: start() returns
StartLoopEnd(m) ==
  [svc |-> m.svc,
   stack |-> SetTopOf(m.stack, [TopOf(m.stack) EXCEPT !.pc = "ret"])]

\* stop() that stops the children and leaves its own flag alone
StopLoopEndKeepsFlag(m) ==
  [svc |-> m.svc,
   stack |-> SetTopOf(m.stack, [TopOf(m.stack) EXCEPT !.pc = "ret"])]

\* stop() that also clears the flag of the node's parent
StopLoopEndStopsParent(m) ==
  LET n == TopOf(m.stack).node
      p == m.svc[n].parent
      a1 == [m.svc EXCEPT ![n].running = FALSE]
  IN [svc |-> IF p # None THEN [a1 EXCEPT ![p].running = FALSE] ELSE a1,
      stack |-> SetTopOf(m.stack, [TopOf(m.stack) EXCEPT !.pc = "ret"])]

\* Service.stop, line 50: self._running = False, after the loop
StopLoopEnd(m) ==
  [svc |-> [m.svc EXCEPT ![TopOf(m.stack).node].running = FALSE],
   stack |-> SetTopOf(m.stack, [TopOf(m.stack) EXCEPT !.pc = "ret"])]

Return(m) ==
  [svc |-> m.svc, stack |-> SubSeq(m.stack, 1, Len(m.stack) - 1)]

\* a loop that ends after the first child
LoopDoneAfterFirst(m) ==
  \/ TopOf(m.stack).i > 1
  \/ TopOf(m.stack).i > Len(m.svc[TopOf(m.stack).node].children)

\* the iteration over self.children.values() is exhausted
LoopDone(m) == TopOf(m.stack).i > Len(m.svc[TopOf(m.stack).node].children)

\* one step of the call on top of the stack
StepF(m) ==
  LET f == TopOf(m.stack)
  IN CASE f.pc = "enter" /\ f.op = "start" -> StartEnter(m)
       [] f.pc = "enter" /\ f.op = "stop" -> StopEnter(m)
       [] f.pc = "loop" /\ ~LoopDone(m) -> LoopCall(m)
       [] f.pc = "loop" /\ LoopDone(m) /\ f.op = "start" -> StartLoopEnd(m)
       [] f.pc = "loop" /\ LoopDone(m) /\ f.op = "stop" -> StopLoopEnd(m)
       [] f.pc = "ret" -> Return(m)

\* a whole call in which no override raises
RECURSIVE Complete(_)
Complete(m) == IF m.stack = <<>> THEN m ELSE Complete(StepF(m))

\* A plain node stands for Service or for a concrete service that, like
\* DaemonService, does fallible work in start()/stop() and then delegates to
\* the base implementation; MergedService overrides neither.
MayRaise(n) == svc[n].cls # "MergedService"

StartCall(n) ==
  /\ stack = <<>>
  /\ stack' = <<Frame("start", n, svc[n].running)>>
  /\ call' = Called("start", n, "active")
  /\ UNCHANGED <<svc, tasks>>

StopCall(n) ==
  /\ stack = <<>>
  /\ stack' = <<Frame("stop", n, svc[n].running)>>
  /\ call' = Called("stop", n, "active")
  /\ UNCHANGED <<svc, tasks>>

\* an override raises before it reaches the base implementation; nothing in
\* Service.start/stop catches, so every frame is unwound
Raise ==
  /\ stack # <<>>
  /\ Top.pc = "enter"
  /\ MayRaise(Top.node)
  /\ stack' = <<>>
  /\ call' = [call EXCEPT !.status = "raised", !.by = Top.node]
  /\ UNCHANGED <<svc, tasks>>

Step ==
  /\ stack # <<>>
  /\ LET m == StepF([svc |-> svc, stack |-> stack])
     IN /\ svc' = m.svc
        /\ stack' = m.stack
        /\ call' = IF m.stack = <<>> THEN [call EXCEPT !.status = "returned"] ELSE call
  /\ UNCHANGED tasks

\* start() / stop() taken as one step, by code that runs between two
\* suspension points of the run() tasks
StartNow(n) ==
  /\ stack = <<>>
  /\ svc' = Complete([svc |-> svc, stack |-> <<Frame("start", n, svc[n].running)>>]).svc
  /\ UNCHANGED <<stack, tasks>>

StopNow(n) ==
  /\ stack = <<>>
  /\ svc' = Complete([svc |-> svc, stack |-> <<Frame("stop", n, svc[n].running)>>]).svc
  /\ UNCHANGED <<stack, tasks>>

\* ------------------------------------------------------------- run()
\* A task is one call of run(): created (not yet executing), sleeping (inside
\* asyncio.sleep), ready (the sleep is over, the task waits to be resumed),
\* gathering (awaiting asyncio.gather over the runs of its children), mock
\* (suspended inside a run() replaced by a concrete service), done or raised.
\* parent is the task whose gather launched it (0 for a call from outside),
\* kids the tasks its own gather launched, slept whether it ever suspended.
Tasks == 1..Len(tasks)

Ended == {"done", "raised"}

InProgress(t) == tasks[t].pc \notin Ended

NewTask(n, parent) ==
  [node |-> n, pc |-> "created", parent |-> parent, kids |-> <<>>, slept |-> FALSE]

TopLevel == {t \in Tasks : tasks[t].parent = 0}

\* run() is called from outside once, by the program that drives the tree
RunCall(n) ==
  /\ stack = <<>>
  /\ TopLevel = {}
  /\ tasks' = Append(tasks, NewTask(n, 0))
  /\ UNCHANGED <<svc, stack, call>>

\* the test of the polling loop that returns as soon as it is reached
PollPcAlwaysDone(n) == "done"

\* the test of the polling loop, inverted
PollPcInverted(n) == IF svc[n].running THEN "done" ELSE "sleeping"

\* a polling loop that never tests the flag
PollPcNeverDone(n) == "sleeping"

\* Service.run, line 58: while self._running: await asyncio.sleep(1.0)
PollPc(n) == IF svc[n].running THEN "sleeping" ELSE "done"

\* a gather over the runs of the children taken last to first
KidTasksReversed(t, n) ==
  [i \in 1..Len(svc[n].children) |->
     NewTask(svc[n].children[Len(svc[n].children) + 1 - i].ref, t)]

\* [child.run() for child in self.children.values()], wrapped by gather
KidTasks(t, n) ==
  [i \in 1..Len(svc[n].children) |-> NewTask(svc[n].children[i].ref, t)]

\* the task runs Service.run up to its first suspension point
TaskStart(t) ==
  /\ stack = <<>>
  /\ tasks[t].pc = "created"
  /\ LET n == tasks[t].node
     IN IF svc[n].children # <<>>
        THEN tasks' = [tasks EXCEPT ![t].pc = "gathering",
                                    ![t].slept = TRUE,
                                    ![t].kids = [i \in 1..Len(svc[n].children) |-> Len(tasks) + i]]
                      \o KidTasks(t, n)
        ELSE tasks' = [tasks EXCEPT ![t].pc = PollPc(n),
                                    ![t].slept = (PollPc(n) = "sleeping")]
  /\ UNCHANGED <<svc, stack, call>>

\* the quantum of asyncio.sleep(1.0) is over
TimerFire(t) ==
  /\ stack = <<>>
  /\ tasks[t].pc = "sleeping"
  /\ tasks' = [tasks EXCEPT ![t].pc = "ready"]
  /\ UNCHANGED <<svc, stack, call>>

\* the task is resumed after its sleep and tests the loop condition again
Resume(t) ==
  /\ stack = <<>>
  /\ tasks[t].pc = "ready"
  /\ tasks' = [tasks EXCEPT ![t].pc = PollPc(tasks[t].node)]
  /\ UNCHANGED <<svc, stack, call>>

KidPcs(t) == {tasks[tasks[t].kids[i]].pc : i \in 1..Len(tasks[t].kids)}

\* asyncio.gather without return_exceptions: the first exception of a child is
\* handed to the awaiting parent at once; otherwise the parent is resumed when
\* every child is done
GatherOutcome(t) ==
  IF "raised" \in KidPcs(t) THEN "raised"
  ELSE IF KidPcs(t) = {"done"} THEN "done"
  ELSE "gathering"

TaskJoin(t) ==
  /\ stack = <<>>
  /\ tasks[t].pc = "gathering"
  /\ GatherOutcome(t) # "gathering"
  /\ tasks' = [tasks EXCEPT ![t].pc = GatherOutcome(t)]
  /\ UNCHANGED <<svc, stack, call>>

\* the run attribute of the node was replaced by a concrete awaitable, as
\* the tests do (child1.run = Mock(...)): the task suspends in it and later
\* returns or raises
MockStart(t) ==
  /\ stack = <<>>
  /\ tasks[t].pc = "created"
  /\ tasks' = [tasks EXCEPT ![t].pc = "mock", ![t].slept = TRUE]
  /\ UNCHANGED <<svc, stack, call>>

MockReturn(t) ==
  /\ stack = <<>>
  /\ tasks[t].pc = "mock"
  /\ tasks' = [tasks EXCEPT ![t].pc = "done"]
  /\ UNCHANGED <<svc, stack, call>>

MockRaise(t) ==
  /\ stack = <<>>
  /\ tasks[t].pc = "mock"
  /\ tasks' = [tasks EXCEPT ![t].pc = "raised"]
  /\ UNCHANGED <<svc, stack, call>>

\* ------------------------------------------------------------ lifecycle claims
Returned(op) == call.op = op /\ call.status = "returned"

\* C1: once start() called on a node n has returned, n and every descendant
\* of n (children of a plain node, members of a composite) report "running".
C1_StartCascades ==
  Returned("start") =>
    \A d \in Subtree(call.node) : status(d) = "running"

\* start() has returned on a node that has at least two nodes below it
C1_Witness ==
  /\ Returned("start")
  /\ Cardinality(Descendants(call.node)) >= 2

\* C2: once stop() called on a node n has returned, n and every descendant
\* of n report "stopped".
C2_StopCascades ==
  Returned("stop") =>
    \A d \in Subtree(call.node) : status(d) = "stopped"

\* stop() has returned on a node with a node below it, called when only part
\* of its subtree was running, while a node outside the subtree still runs
C2_Witness ==
  /\ Returned("stop")
  /\ Descendants(call.node) # {}
  /\ ~call.full
  /\ \E o \in Ids : svc[o].running

StopFrames == {k \in 1..Len(stack) : stack[k].op = "stop"}

\* the flag of a node goes from true to false only in the step of its own
\* stop() that follows the exhausted loop over its children
ClearedOnlyAfterChildren ==
  \A n \in Ids :
    (svc[n].running /\ ~svc'[n].running) =>
      /\ stack # <<>>
      /\ Top.op = "stop" /\ Top.node = n /\ Top.pc = "loop"
      /\ Top.i > Len(svc[n].children)

StoppedOnlyAboveStopped ==
  \A k \in StopFrames :
    (stack[k].was /\ status(stack[k].node) = "stopped") =>
      NoneRunning(Descendants(stack[k].node))

\* C3: during stop() on n, n.running is cleared only after stop() has returned
\* for every child of n; in every intermediate state of a stop() call that
\* began with n running, n reports "stopped" only when no descendant runs.
C3_ChildrenBeforeSelf ==
  [][ClearedOnlyAfterChildren]_vars /\ []StoppedOnlyAboveStopped

\* inside a stop() call that began with n running: n, which has children, has
\* just been marked stopped and the call has not returned yet
C3_Witness ==
  \E k \in StopFrames :
    /\ stack[k].was /\ stack[k].pc = "ret"
    /\ svc[stack[k].node].children # <<>>
    /\ ~svc[stack[k].node].running

\* C4: when the stop() of some child fails part-way through the shutdown, then
\* after the stop() call on n has ended no node of n's subtree is running.
C4_StopDespiteChildFailure ==
  (call.op = "stop" /\ call.status = "raised" /\ call.by \in ChildSet(call.node)) =>
    NoneRunning(Subtree(call.node))

\* ------------------------------------------------------ run scheduler claims
BecameEnded(t) == tasks[t].pc \notin Ended /\ tasks'[t].pc \in Ended

KidSet(t) == {tasks[t].kids[i] : i \in 1..Len(tasks[t].kids)}

\* t executes the polling loop of Service.run
Polling(t) == tasks[t].pc \in {"sleeping", "ready"}

\* C5: run() on a node with children returns only after the run() of every
\* child it launched has finished: in no state has the parent's run() ended
\* while a child run() it launched is still in progress.
C5_JoinAll ==
  \A t \in Tasks :
    tasks[t].pc \in Ended => \A k \in KidSet(t) : tasks[k].pc \in Ended

\* C6: run() on a node with no children returns without suspending when
\* running is false at the call; otherwise it suspends one quantum at a time,
\* re-checks running after each quantum, goes back to sleep at every check
\* where running is true and returns at the first check where it is false.
C6_PollingLoop ==
  [][\A t \in Tasks :
       LET n == tasks[t].node
           pc == tasks[t].pc
           next == tasks'[t].pc
       IN /\ (pc = "created" /\ next \notin {"created", "mock"} /\ svc[n].children = <<>>) =>
               /\ svc[n].running => next = "sleeping" /\ tasks'[t].slept
               /\ ~svc[n].running => next = "done" /\ ~tasks'[t].slept
          /\ (pc = "sleeping" /\ next # pc) => next = "ready"
          /\ (pc = "ready" /\ next # pc) =>
               /\ svc[n].running => next = "sleeping"
               /\ ~svc[n].running => next = "done"]_vars

\* the polling run() of a leaf has returned after having slept at least once
C6_Witness ==
  \E t \in Tasks : tasks[t].pc = "done" /\ tasks[t].slept /\ tasks[t].kids = <<>>

\* C7 as stated: for every node, with or without children, run() never
\* completes in a state where the node's status() is still "running".
C7_EndsOnlyWhenStopped ==
  [][\A t \in Tasks :
       (tasks[t].pc \in {"created", "sleeping", "ready", "gathering"} /\ BecameEnded(t)) =>
         status(tasks[t].node) = "stopped"]_vars

\* C7 amended: a run() of Service.run on a node that has no children when it
\* is called completes only at a check that finds the node stopped.
C7_LeafEndsOnlyWhenStopped ==
  [][\A t \in Tasks :
       (tasks[t].kids = <<>> /\ tasks[t].pc \in {"created", "sleeping", "ready"}
          /\ tasks'[t].pc = "done") =>
         status(tasks[t].node) = "stopped"]_vars

\* the polling run() of a leaf has completed and the leaf is stopped, while
\* the run() of a node with children has completed and that node is running
C7_Witness ==
  /\ \E t \in Tasks :
       /\ tasks[t].pc = "done" /\ tasks[t].slept /\ tasks[t].kids = <<>>
       /\ ~svc[tasks[t].node].running
  /\ \E t \in Tasks :
       /\ tasks[t].pc = "done" /\ tasks[t].kids # <<>>
       /\ svc[tasks[t].node].running

RECURSIVE RootTask(_)
RootTask(t) == IF tasks[t].parent = 0 THEN t ELSE RootTask(tasks[t].parent)

\* every task that a single outside run() can have
TaskIds == 1..MaxRunNodes

\* the last start()/stop() issued is a stop() on the parentless node whose
\* run() launched t, issued when its whole tree was running, and t has not
\* ended
StopIssued(t) ==
  /\ t \in Tasks
  /\ InProgress(t)
  /\ call.op = "stop" /\ call.full
  /\ call.node = tasks[RootTask(t)].node
  /\ svc[call.node].parent = None

\* C8: if run() is in progress on the root of a started tree and stop() is
\* then called on the root, with no later start() on any node, then every
\* run() in progress in the tree eventually returns, provided every suspended
\* run is eventually resumed.
C8_StopEndsRuns ==
  \A t \in TaskIds :
    StopIssued(t) ~> ((t \in Tasks /\ tasks[t].pc = "done") \/ call.op = "start")

\* ------------------------------------------------------------ merge claims
\* the members of composite c that expose name, as positions in member order
Exposing(c, name) == {i \in 1..Len(Members(c)) : GetAttr(Members(c)[i], name).ok}

Max(S) == CHOOSE i \in S : \A j \in S : j <= i

\* C9: for a composite with members m1..mk in insertion order and a name X
\* without the reserved marker that at least one member exposes, resolving X
\* on the composite returns what the highest-indexed member exposing X
\* returns; with a single exposing member it returns that member's.
C9_LastAddedWins ==
  (/\ call.op = "getattr"
   /\ IsMerged(call.node)
   /\ ~StartsWith(call.arg, Underscore)
   /\ Exposing(call.node, call.arg) # {}) =>
    call.result = GetAttr(Members(call.node)[Max(Exposing(call.node, call.arg))], call.arg)

\* X was resolved on a composite of which two different plain members define
\* X, and the later one's attribute was returned
C9_Witness ==
  /\ call.op = "getattr" /\ IsMerged(call.node)
  /\ ~StartsWith(call.arg, Underscore)
  /\ Cardinality(Exposing(call.node, call.arg)) >= 2
  /\ call.result = Found("attr", Members(call.node)[Len(Members(call.node))])
  /\ call.arg \in svc[Members(call.node)[1]].attrs

SeqSet(q) == {q[i] : i \in 1..Len(q)}

\* x + y nests to the left, (a + b) + c, or to the right, a + (b + c), over
\* three different plain services
LeftNested(x, y) ==
  /\ IsMerged(x) /\ ~IsMerged(y)
  /\ Len(Members(x)) = 2
  /\ \A m \in SeqSet(Members(x)) : ~IsMerged(m)
  /\ y \notin SeqSet(Members(x))

RightNested(x, y) ==
  /\ ~IsMerged(x) /\ IsMerged(y)
  /\ Len(Members(y)) = 2
  /\ \A m \in SeqSet(Members(y)) : ~IsMerged(m)
  /\ x \notin SeqSet(Members(y))

Operands(x, y) ==
  (IF IsMerged(x) THEN SeqSet(Members(x)) ELSE {x})
    \cup (IF IsMerged(y) THEN SeqSet(Members(y)) ELSE {y})

\* C10: for plain services a, b, c both (a + b) + c and a + (b + c) produce a
\* composite with exactly the three members a, b, c, none of them a composite.
C10_MergeFlattens ==
  (call.op = "add" /\ (LeftNested(call.operands[1], call.operands[2])
                        \/ RightNested(call.operands[1], call.operands[2]))) =>
    /\ IsMerged(call.node)
    /\ Len(Members(call.node)) = 3
    /\ SeqSet(Members(call.node)) = Operands(call.operands[1], call.operands[2])
    /\ ChildSet(call.node) = SeqSet(Members(call.node))
    /\ \A m \in SeqSet(Members(call.node)) : ~IsMerged(m)

\* a + (b + c) has just been formed, and (a + b) + c can be told apart from it
C10_Witness ==
  /\ call.op = "add"
  /\ RightNested(call.operands[1], call.operands[2])
  /\ Len(Members(call.node)) = 3

\* the step is a merge: x + y has built a new composite
Merged == call'.op = "add" /\ Len(svc') = Len(svc) + 1

\* the list of services that the merge step hands to MergedService
MergedList == AddServices(call'.operands[1], call'.operands[2])

Init ==
  /\ svc = <<>>
  /\ stack = <<>>
  /\ call = Called("none", None, "returned")
  /\ tasks = <<>>

Construct ==
  /\ Len(svc) < MaxNodes
  /\ \E name \in Names, parent \in {None} \cup Ids :
       NewService("Service", name, parent, {})
  /\ call' = Called("new", Len(svc) + 1, "returned")

Merge ==
  /\ Len(svc) < MaxNodes
  /\ \E x \in Ids, y \in Ids :
       /\ Add(x, y)
       /\ call' = [Called("add", Len(svc) + 1, "returned") EXCEPT !.operands = <<x, y>>]

Next ==
  \/ Construct
  \/ Merge
  \/ \E n \in Ids : StartCall(n)
  \/ \E n \in Ids : StopCall(n)
  \/ Raise
  \/ Step

Spec == Init /\ [][Next]_vars

\* the run scheduler: construction, start()/stop() between suspension points,
\* and the tasks of run()
ConstructRun ==
  /\ Len(svc) < MaxRunNodes
  /\ \E name \in Names, parent \in {None} \cup Ids :
       NewService("Service", name, parent, {})
  /\ UNCHANGED call

StartRun == \E n \in Ids : StartNow(n) /\ UNCHANGED call

StopRun == \E n \in Ids : StopNow(n) /\ UNCHANGED call

NextRun ==
  \/ ConstructRun
  \/ StartRun
  \/ StopRun
  \/ \E n \in Ids : RunCall(n)
  \/ \E t \in Tasks : TaskStart(t)
  \/ \E t \in Tasks : TimerFire(t)
  \/ \E t \in Tasks : Resume(t)
  \/ \E t \in Tasks : TaskJoin(t)
  \/ \E t \in Tasks : MockStart(t)
  \/ \E t \in Tasks : MockReturn(t)
  \/ \E t \in Tasks : MockRaise(t)

SpecRun == Init /\ [][NextRun]_vars

\* the run scheduler with base start/stop/run only, remembering the last
\* start()/stop() issued, under the assumption that every task that can take
\* a step eventually takes it
StartTracked == \E n \in Ids : StartNow(n) /\ call' = Called("start", n, "returned")

StopTracked == \E n \in Ids : StopNow(n) /\ call' = Called("stop", n, "returned")

NextBase ==
  \/ ConstructRun
  \/ StartTracked
  \/ StopTracked
  \/ \E n \in Ids : RunCall(n)
  \/ \E t \in Tasks : TaskStart(t)
  \/ \E t \in Tasks : TimerFire(t)
  \/ \E t \in Tasks : Resume(t)
  \/ \E t \in Tasks : TaskJoin(t)

Resumed(t) ==
  /\ t \in Tasks
  /\ TaskStart(t) \/ TimerFire(t) \/ Resume(t) \/ TaskJoin(t)

SpecRunFair ==
  /\ Init
  /\ [][NextBase]_vars
  /\ \A t \in TaskIds : WF_vars(Resumed(t))

\* merging and attribute resolution over plain services whose names and class
\* attributes are drawn from the bounded sets
PlainServices ==
  {NewObject("Service", name, None, attrs) : name \in Names, attrs \in SUBSET Caps}

InitMerge ==
  /\ svc \in [1..MaxPlain -> PlainServices]
  /\ stack = <<>>
  /\ call = Called("none", None, "returned")
  /\ tasks = <<>>

MergeAny ==
  /\ Len(svc) < MaxMergeNodes
  /\ \E x \in Ids, y \in Ids :
       /\ Add(x, y)
       /\ call' = [Called("add", Len(svc) + 1, "returned")
                     EXCEPT !.operands = <<x, y>>, !.full = FALSE]

Composites == {n \in Ids : IsMerged(n)}

Resolve == \E n \in Composites, name \in AttrNames : ResolveAttr(n, name)

NextMerge ==
  \/ MergeAny
  \/ Resolve

SpecMerge == InitMerge /\ [][NextMerge]_vars

\* trees of plain services and composites with attribute resolution on every
\* node.  A service is of the base class, or of a concrete class that defines
\* a public attribute and one whose name starts with the reserved marker.
\* The names resolved are drawn from names that Service itself does not
\* define (name, path, start, ...): those are found by the ordinary lookup on
\* every node and never reach __getattr__.
ClassAttrs == {NameB, ReservedB}

AttrSets == {{}, ClassAttrs}

ConstructAttr ==
  /\ Len(svc) < MaxTreeNodes
  /\ \E name \in Names, parent \in {None} \cup Ids, attrs \in AttrSets :
       NewService("Service", name, parent, attrs)
  /\ call' = [Called("new", Len(svc) + 1, "returned") EXCEPT !.full = FALSE]

MergeTree ==
  /\ Len(svc) < MaxTreeNodes
  /\ \E x \in Ids, y \in Ids :
       /\ Add(x, y)
       /\ call' = [Called("add", Len(svc) + 1, "returned")
                     EXCEPT !.operands = <<x, y>>, !.full = FALSE]

\* the names asked of node n: the class attributes, and the keys under which
\* the members of n are stored
Asked(n) == ClassAttrs \cup {MergedKey(m) : m \in SeqSet(Members(n))}

ResolveAny == \E n \in Ids : \E name \in Asked(n) : ResolveAttr(n, name)

NextResolve ==
  \/ ConstructAttr
  \/ MergeTree
  \/ ResolveAny

SpecResolve == Init /\ [][NextResolve]_vars

\* ------------------------------------------------------ resolution claims
\* C12: resolution on a composite goes members, then own ordinary children,
\* then failure: a non-reserved name X that no member exposes and that is the
\* key of an ordinary child resolves to that child; when a member exposes X
\* and an ordinary child is also named X, a member's X is returned; when
\* neither exposes X the lookup fails with the not-found error.
C12_MembersThenChildren ==
  (call.op = "getattr" /\ IsMerged(call.node) /\ ~StartsWith(call.arg, Underscore)) =>
    LET c == call.node
        X == call.arg
        kids == svc[c].children
    IN /\ (Exposing(c, X) = {} /\ HasKey(kids, X)) =>
            call.result = Found("child", DictGet(kids, X))
       /\ Exposing(c, X) # {} =>
            /\ call.result \in {GetAttr(Members(c)[i], X) : i \in Exposing(c, X)}
            /\ HasKey(kids, X) => call.result # Found("child", DictGet(kids, X))
       /\ (Exposing(c, X) = {} /\ ~HasKey(kids, X)) =>
            call.result = AttributeError /\ call.status = "raised"

\* X was resolved on a composite that has an ordinary child named X and a
\* member whose class defines X, and the member's attribute was returned
C12_Witness ==
  /\ call.op = "getattr" /\ IsMerged(call.node)
  /\ ~StartsWith(call.arg, Underscore)
  /\ HasKey(svc[call.node].children, call.arg)
  /\ Exposing(call.node, call.arg) # {}
  /\ call.result.kind = "attr"

\* C13: on a composite, resolving a name that begins with the reserved marker
\* and is not a native attribute of the composite fails with an error, even
\* when a member exposes an attribute of that name and even when the name is
\* the key under which a member is stored.
C13_ReservedFails ==
  (/\ call.op = "getattr" /\ IsMerged(call.node)
   /\ StartsWith(call.arg, Underscore)
   /\ call.arg \notin svc[call.node].attrs) =>
    call.result = AttributeError /\ call.status = "raised"

\* a reserved name that a member's class defines was asked of the composite
C13_Witness ==
  /\ call.op = "getattr" /\ IsMerged(call.node)
  /\ StartsWith(call.arg, Underscore)
  /\ \E m \in SeqSet(Members(call.node)) : call.arg \in svc[m].attrs
  /\ call.status = "raised"

\* the key under which a member is stored was asked of the composite
C13_KeyAsked ==
  /\ call.op = "getattr" /\ IsMerged(call.node)
  /\ HasKey(svc[call.node].children, call.arg)
  /\ StartsWith(call.arg, MergedPrefix)
  /\ call.status = "raised"

PlainResolved ==
  (call.op = "getattr" /\ ~IsMerged(call.node)) =>
    LET n == call.node
        X == call.arg
        kids == svc[n].children
    IN /\ X \in svc[n].attrs => call.result = Found("attr", n)
       /\ (X \notin svc[n].attrs /\ HasKey(kids, X)) =>
            /\ call.result.ok /\ call.result.kind = "child"
            /\ \E i \in 1..Len(kids) : kids[i].key = X /\ kids[i].ref = call.result.ref
       /\ (X \notin svc[n].attrs /\ ~HasKey(kids, X)) =>
            call.result = AttributeError /\ call.status = "raised"

FailedLookupChangesNothing ==
  (call'.op = "getattr" /\ call' # call /\ ~call'.result.ok) =>
    UNCHANGED <<svc, stack, tasks>>

\* C14: on a plain node a name that is a native attribute resolves to that
\* attribute even if a child has the same name; a name that is not native
\* resolves to the child registered under exactly that name; a name that is
\* neither fails with the not-found error and changes no state.
C14_PlainResolution ==
  []PlainResolved /\ [][FailedLookupChangesNothing]_vars

\* a name was asked of a plain node whose class defines it and which also has
\* a child of that name, and the attribute of the class was returned
C14_Witness ==
  /\ call.op = "getattr" /\ ~IsMerged(call.node)
  /\ call.arg \in svc[call.node].attrs
  /\ HasKey(svc[call.node].children, call.arg)
  /\ call.result = Found("attr", call.node)

\* ------------------------------------------------------------ dispatch_any
\* dispatch_any(obj_list, method_name, *args).  A candidate is an arbitrary
\* object, described by what the function can observe of it: it lacks the
\* attribute method_name, has it as a value that is not callable, or has it
\* as a method.  The method of the k-th candidate returns a value that tells
\* which candidate was called and with which arguments.
Kinds == {"absent", "value", "callable"}

MethodName == <<"test_method">>

ArgSets == {<<>>, <<"arg1">>}

CandidateLists == UNION {[1..k -> Kinds] : k \in 0..MaxCands}

HasAttr(obj) == obj # "absent"

Callable(obj) == obj = "callable"

MethodResult(k, args) == [ok |-> TRUE, kind |-> "return", ref |-> k, args |-> args]

\* a dispatcher that calls whatever attribute it finds
QualifiesAnyAttr(obj) == HasAttr(obj)

\* if hasattr(obj, method_name): method = getattr(...); if callable(method)
Qualifies(obj) == HasAttr(obj) /\ Callable(obj)

DispatchCalled(cands, args) ==
  [op |-> "dispatch_any", node |-> None, status |-> "active", by |-> None,
   full |-> FALSE, arg |-> MethodName, operands |-> cands, result |-> NoResult,
   args |-> args, invoked |-> <<>>]

Dispatching ==
  /\ stack # <<>>
  /\ Top.op = "dispatch_any"

\* the candidate under the loop variable does not qualify: next candidate
DispatchSkip ==
  /\ Dispatching
  /\ Top.i <= Len(call.operands)
  /\ ~Qualifies(call.operands[Top.i])
  /\ stack' = SetTopOf(stack, [Top EXCEPT !.i = @ + 1])
  /\ UNCHANGED <<svc, call, tasks>>

\* return method(*args, **kwargs)
DispatchInvoke ==
  /\ Dispatching
  /\ Top.i <= Len(call.operands)
  /\ Qualifies(call.operands[Top.i])
  /\ stack' = <<>>
  /\ call' = [call EXCEPT !.status = "returned", !.node = Top.i,
                          !.result = MethodResult(Top.i, call.args),
                          !.invoked = Append(@, Top.i)]
  /\ UNCHANGED <<svc, tasks>>

\* the loop is exhausted: raise AttributeError
DispatchFail ==
  /\ Dispatching
  /\ Top.i > Len(call.operands)
  /\ stack' = <<>>
  /\ call' = [call EXCEPT !.status = "raised", !.result = AttributeError]
  /\ UNCHANGED <<svc, tasks>>

InitDispatch ==
  /\ svc = <<>>
  /\ tasks = <<>>
  /\ \E cands \in CandidateLists, args \in ArgSets :
       /\ call = DispatchCalled(cands, args)
       /\ stack = <<[Frame("dispatch_any", None, FALSE) EXCEPT !.pc = "loop"]>>

NextDispatch ==
  \/ DispatchSkip
  \/ DispatchInvoke
  \/ DispatchFail

SpecDispatch == InitDispatch /\ [][NextDispatch]_vars

\* the candidates that expose the method as a callable, by position
CallableAt == {i \in 1..Len(call.operands) : call.operands[i] = "callable"}

Min(S) == CHOOSE i \in S : \A j \in S : i <= j

\* C15: dispatch_any returns the result of calling the method, with the
\* arguments given, on the first candidate in list order that exposes it as
\* a callable; candidates that lack it or expose a non-callable value are
\* skipped and never invoked; no candidate after the chosen one is invoked;
\* when no candidate qualifies, the empty list included, it fails with the
\* not-found error.
C15_DispatchFirstCallable ==
  call.op = "dispatch_any" =>
    /\ stack # <<>> => call.invoked = <<>>
    /\ (stack = <<>> /\ CallableAt # {}) =>
         /\ call.status = "returned"
         /\ call.result = MethodResult(Min(CallableAt), call.args)
         /\ call.invoked = <<Min(CallableAt)>>
    /\ (stack = <<>> /\ CallableAt = {}) =>
         /\ call.status = "raised"
         /\ call.result = AttributeError
         /\ call.invoked = <<>>

\* a call has returned the result of the second candidate, called with an
\* argument, after a non-callable first one and before another callable one
C15_Witness ==
  /\ call.op = "dispatch_any" /\ stack = <<>>
  /\ call.operands = <<"value", "callable", "callable">>
  /\ call.args # <<>>
  /\ call.result = MethodResult(2, call.args)

\* -------------------------------------------------------------- full_path
Slash == <<"/">>

\* sep.join(q) over strings that are token sequences
RECURSIVE Join(_, _)
Join(sep, q) ==
  IF q = <<>> THEN EmptyStr
  ELSE IF Len(q) = 1 THEN q[1]
  ELSE q[1] \o sep \o Join(sep, Tail(q))

RECURSIVE Parts(_)

\* a walk that collects the empty segments too
PartsKeepEmpty(current) ==
  IF current = None THEN <<>>
  ELSE <<svc[current].path>> \o Parts(svc[current].parent)

\* while current: if current.path: parts.append(current.path)
\*                current = current.parent
Parts(current) ==
  IF current = None THEN <<>>
  ELSE (IF svc[current].path # EmptyStr THEN <<svc[current].path>> ELSE <<>>)
       \o Parts(svc[current].parent)

\* Service.full_path
full_path(n) ==
  IF Parts(n) # <<>> THEN Slash \o Join(Slash, Reversed(Parts(n))) ELSE Slash

StrResult(str) == [ok |-> TRUE, kind |-> "str", ref |-> None, str |-> str]

FullPathCall(n) ==
  /\ stack = <<>>
  /\ call' = [Called("full_path", n, "returned")
                EXCEPT !.full = FALSE, !.result = StrResult(full_path(n))]
  /\ UNCHANGED <<svc, stack, tasks>>

\* trees of plain services and composites, the composite of an empty list
\* included, with full_path() asked of every node
ConstructPath ==
  /\ Len(svc) < MaxPathNodes
  /\ \E name \in Names, parent \in {None} \cup Ids :
       NewService("Service", name, parent, {})
  /\ call' = [Called("new", Len(svc) + 1, "returned") EXCEPT !.full = FALSE]

MergePath ==
  /\ Len(svc) < MaxPathNodes
  /\ \E x \in Ids, y \in Ids :
       /\ Add(x, y)
       /\ call' = [Called("add", Len(svc) + 1, "returned")
                     EXCEPT !.operands = <<x, y>>, !.full = FALSE]

\* MergedService([])
MergeEmpty ==
  /\ Len(svc) < MaxPathNodes
  /\ stack = <<>>
  /\ svc' = MergedService__init__(svc, <<>>)
  /\ call' = [Called("add", Len(svc) + 1, "returned") EXCEPT !.full = FALSE]
  /\ UNCHANGED <<stack, tasks>>

AskPath == \E n \in Ids : FullPathCall(n)

NextPath ==
  \/ ConstructPath
  \/ MergePath
  \/ MergeEmpty
  \/ AskPath

SpecPath == Init /\ [][NextPath]_vars

\* C16 as stated: full_path(root) is "/" followed by root's path segment when
\* root has no parent; for a node n with parent p, full_path(n) is
\* full_path(p) + "/" + n.path_segment when the segment of n is not empty and
\* full_path(p) when it is empty, whatever the segments along the chain.
C16_PathLaw ==
  call.op = "full_path" =>
    LET n == call.node
        p == svc[n].parent
    IN IF p = None THEN call.result.str = Slash \o svc[n].path
       ELSE IF svc[n].path # EmptyStr
            THEN call.result.str = full_path(p) \o Slash \o svc[n].path
       ELSE call.result.str = full_path(p)

\* C16 amended: as stated, except that a node with a non-empty segment whose
\* ancestors all have empty segments, so that full_path(p) is "/", has the
\* path "/" + n.path_segment, with a single separator.
C16_PathLawSingleSlash ==
  call.op = "full_path" =>
    LET n == call.node
        p == svc[n].parent
    IN IF p = None THEN call.result.str = Slash \o svc[n].path
       ELSE IF svc[n].path = EmptyStr THEN call.result.str = full_path(p)
       ELSE IF full_path(p) = Slash THEN call.result.str = Slash \o svc[n].path
       ELSE call.result.str = full_path(p) \o Slash \o svc[n].path

\* full_path() was asked of a node with a segment whose ancestors all have
\* empty segments, and "/" followed by the segment was returned
C16_Witness ==
  /\ call.op = "full_path"
  /\ svc[call.node].path # EmptyStr
  /\ svc[call.node].parent # None
  /\ full_path(svc[call.node].parent) = Slash
  /\ call.result.str = Slash \o svc[call.node].path

\* --------------------------------------------------------- name derivation
\* Class identifiers are sequences of characters, so that str.endswith, the
\* slice and str.lower are computed.  A kind is a class with the chain of its
\* first bases: bases[1] is __bases__[0], bases[2] the first base of that.
Alphabet == {"F", "S", "e"}

Identifiers == UNION {[1..k -> Alphabet] : k \in 1..MaxIdLen}

KindsOfService == [id : Identifiers, bases : Identifiers \X Identifiers]

LowerChar(c) ==
  CASE c = "F" -> "f"
    [] c = "S" -> "s"
    [] OTHER -> c

Lower(str) == [i \in 1..Len(str) |-> LowerChar(str[i])]

EndsWith(str, suffix) ==
  /\ Len(str) >= Len(suffix)
  /\ SubSeq(str, Len(str) - Len(suffix) + 1, Len(str)) = suffix

\* str[:-len(suffix)]
CutRight(str, suffix) == SubSeq(str, 1, Len(str) - Len(suffix))

\* a derivation that goes on to the next base when the first is no suffix
Service_get_nameAnyBase(kind) ==
  LET name == kind.id
  IN Lower(IF EndsWith(name, kind.bases[1]) /\ name # kind.bases[1]
           THEN CutRight(name, kind.bases[1])
           ELSE IF EndsWith(name, kind.bases[2]) /\ name # kind.bases[2]
           THEN CutRight(name, kind.bases[2])
           ELSE name)

\* Service._get_name
Service_get_name(kind) ==
  LET name == kind.id
      parent_name == kind.bases[1]
  IN Lower(IF EndsWith(name, parent_name) /\ name # parent_name
           THEN CutRight(name, parent_name)
           ELSE name)

\* K(): a service of a concrete kind constructed without a name
ConstructDerived ==
  /\ svc = <<>>
  /\ \E kind \in KindsOfService :
       /\ NewService("Service", Service_get_name(kind), None, {})
       /\ call' = [Called("new", 1, "returned")
                     EXCEPT !.full = FALSE, !.operands = <<kind.id>> \o kind.bases]

NextNames == ConstructDerived

SpecNames == Init /\ [][NextNames]_vars

\* C17: a node constructed without a name, of kind K whose first base is B:
\* if K's identifier ends with B's and the two differ, the name followed by
\* the lower-cased B is the lower-cased K; otherwise the name is the whole
\* lower-cased K, also when K ends with the identifier of a more distant
\* ancestor.
C17_NameDerivation ==
  (call.op = "new" /\ Len(call.operands) = 3) =>
    LET K == call.operands[1]
        B == call.operands[2]
        name == svc[call.node].name
    IN IF EndsWith(K, B) /\ K # B
       THEN name \o Lower(B) = Lower(K)
       ELSE name = Lower(K)

\* a kind whose identifier ends with that of its base's base, not with that of
\* its own base, was constructed and got its whole identifier as name
C17_Witness ==
  /\ call.op = "new" /\ Len(call.operands) = 3
  /\ ~EndsWith(call.operands[1], call.operands[2])
  /\ EndsWith(call.operands[1], call.operands[3])
  /\ call.operands[1] # call.operands[3]
  /\ svc[call.node].name = Lower(call.operands[1])

\* a kind whose identifier ends with that of its base was constructed and got
\* a name shorter than its identifier
C17_Stripped ==
  /\ call.op = "new" /\ Len(call.operands) = 3
  /\ EndsWith(call.operands[1], call.operands[2])
  /\ Len(svc[call.node].name) = 1
  /\ Len(call.operands[1]) = 2

\* ------------------------------------------------------- ownership claims
\* the step constructs a service with parent p under a name that p already
\* holds a child for
CollidingConstruction(p) ==
  /\ call'.op = "new"
  /\ Len(svc') = Len(svc) + 1
  /\ svc'[Len(svc')].parent = p
  /\ HasKey(svc[p].children, svc'[Len(svc')].name)

\* C18: adding a child whose name collides with that of an existing child of
\* the same parent fails with an error and leaves the parent's children map
\* unchanged: the earlier child is still registered under the name and still
\* has the parent as its parent.
C18_DuplicateNameFails ==
  [][\A p \in Ids :
       CollidingConstruction(p) =>
         /\ call'.status = "raised"
         /\ svc'[p].children = svc[p].children]_vars

\* C19: after any sequence of constructions and merges every node is held in
\* the children map of at most one node, and for every entry (key, c) of the
\* children map of a node p, the parent of c is p.
C19_ExclusiveOwnership ==
  /\ \A c \in Ids : Cardinality({p \in Ids : c \in ChildSet(p)}) <= 1
  /\ \A p \in Ids : \A c \in ChildSet(p) : svc[c].parent = p

\* ------------------------------------------- add_service / remove_service
\* The hosting operations of src/vldmcp/service.py.  Its Service has no path
\* and no parent argument; the key of a child in the services map is name(),
\* the identifier of its class; the map is the field children of the arena.
\* setattr(self, name, service) and delattr(self, name) keep the instance
\* attribute of that name in step with the entry of the map.  The services
\* hosted here are of classes that define no attribute named like a class.
HostObject(name, attrs) ==
  [cls |-> "Service", name |-> name, parent |-> None, root |-> None,
   children |-> <<>>, running |-> FALSE, attrs |-> attrs]

\* self.services.pop(name)
DictPop(dict, key) == SelectSeq(dict, LAMBDA e : e.key # key)

ValueError == [ok |-> FALSE, kind |-> "ValueError", ref |-> None]

\* name in self.services, or an attribute of that name that is no service
AddRefused(arena, host, service) ==
  \/ HasKey(arena[host].children, arena[service].name)
  \/ arena[service].name \in arena[host].attrs

\* Service.add_service
add_service(arena, host, service) ==
  IF AddRefused(arena, host, service) THEN arena
  ELSE [arena EXCEPT
          ![host].children = DictSet(@, arena[service].name, service),
          ![service].parent = host,
          ![service].root = IF arena[host].root # None THEN arena[host].root ELSE host]

\* a removal that leaves the backreference in place
remove_serviceKeepsParent(arena, host, name) ==
  IF HasKey(arena[host].children, name)
  THEN [arena EXCEPT ![host].children = DictPop(@, name)]
  ELSE arena

\* a removal that stops what it removes
remove_serviceStops(arena, host, name) ==
  IF HasKey(arena[host].children, name)
  THEN LET service == DictGet(arena[host].children, name)
       IN [arena EXCEPT ![host].children = DictPop(@, name),
                        ![service].parent = None,
                        ![service].root = None,
                        ![service].running = FALSE]
  ELSE arena

\* Service.remove_service
remove_service(arena, host, name) ==
  IF HasKey(arena[host].children, name)
  THEN LET service == DictGet(arena[host].children, name)
       IN [arena EXCEPT ![host].children = DictPop(@, name),
                        ![service].parent = None,
                        ![service].root = None]
  ELSE arena

\* the services constructed are of two classes, alternately, so that a host
\* can hold two services and can be offered a second one of a class it holds
ClassOf(i) == IF i % 2 = 1 THEN NameA ELSE NameB

NewHosted ==
  /\ Len(svc) < MaxHosted
  /\ stack = <<>>
  /\ svc' = Append(svc, HostObject(ClassOf(Len(svc) + 1), {}))
  /\ call' = Called("new", None, "returned")
  /\ UNCHANGED <<stack, tasks>>

\* the services that no host holds
Unhosted == {n \in Ids : svc[n].parent = None}

\* host.add_service(service); the services form a tree: what is added has no
\* host yet and is not added below itself.  Of the operations on hosted
\* services only the removals are recorded with their arguments.
AddService ==
  /\ stack = <<>>
  /\ \E host \in Ids, service \in Unhosted :
       /\ host \notin Subtree(service)
       /\ svc' = add_service(svc, host, service)
       /\ call' = [Called("add_service", None,
                           IF AddRefused(svc, host, service) THEN "raised" ELSE "returned")
                     EXCEPT !.result = IF AddRefused(svc, host, service)
                                       THEN ValueError ELSE NoResult]
  /\ UNCHANGED <<stack, tasks>>

\* host.remove_service(name); result records the service that was popped
RemoveService ==
  /\ stack = <<>>
  /\ \E host \in Ids, name \in Names :
       /\ svc' = remove_service(svc, host, name)
       /\ call' = [Called("remove_service", host, "returned")
                     EXCEPT !.full = FALSE, !.arg = name,
                            !.result = IF HasKey(svc[host].children, name)
                                       THEN Found("child", DictGet(svc[host].children, name))
                                       ELSE NoResult]
  /\ UNCHANGED <<stack, tasks>>

StartHosted ==
  \E n \in Unhosted : StartNow(n) /\ call' = Called("start", None, "returned")

StopHosted ==
  \E n \in Unhosted : StopNow(n) /\ call' = Called("stop", None, "returned")

\* the trees are started and stopped at their tops
NextHost ==
  \/ NewHosted
  \/ AddService
  \/ RemoveService
  \/ StartHosted
  \/ StopHosted

SpecHost == Init /\ [][NextHost]_vars

\* the step is host.remove_service(name)
Removing == call'.op = "remove_service"

\* C20: removing a child by name from its parent deletes the entry from the
\* parent's children map, leaving the other entries, and clears the removed
\* node's parent backreference, and does not stop it: the running flag of the
\* removed node and of every other node is the same after as before;
\* removing a name that is not registered changes nothing and raises no
\* error.
C20_RemoveDetachesOnly ==
  [][Removing =>
       LET host == call'.node
           name == call'.arg
           kids == svc[host].children
       IN IF HasKey(kids, name)
          THEN /\ ~HasKey(svc'[host].children, name)
               /\ \A i \in 1..Len(kids) :
                    kids[i].key # name =>
                      /\ HasKey(svc'[host].children, kids[i].key)
                      /\ DictGet(svc'[host].children, kids[i].key) = kids[i].ref
               /\ svc'[DictGet(kids, name)].parent = None
               /\ \A d \in Ids : svc'[d].running = svc[d].running
               /\ \A d \in Ids \ {host} : svc'[d].children = svc[d].children
               /\ call'.status = "returned"
          ELSE svc' = svc /\ call'.status = "returned"]_vars

\* a running service with a running child of its own has been removed from
\* its host: it has no parent any more, and both still run
C20_Witness ==
  /\ call.op = "remove_service"
  /\ call.result.ok
  /\ svc[call.result.ref].parent = None
  /\ ~HasKey(svc[call.node].children, call.arg)
  /\ svc[call.result.ref].running
  /\ \E d \in ChildSet(call.result.ref) : svc[d].running

\* a removal was asked for a name under which the host holds nothing
C20_NotRegistered ==
  /\ call.op = "remove_service"
  /\ ~call.result.ok
  /\ svc[call.node].children # <<>>

\* ------------------------------------------- start() from a stopped state
\* A structure is built while every node is stopped; then start() is called
\* from outside on one of its nodes and runs step by step, and a concrete
\* service's start() may raise.  The nodes are named a, b, a, b, ... in the
\* order of their construction.
MaxSharedNodes == 5

NameOf(i) == IF i % 2 = 1 THEN NameA ELSE NameB

Building == stack = <<>> /\ NoneRunning(Ids)

ConstructStopped ==
  /\ Building
  /\ Len(svc) < MaxSharedNodes
  /\ \E parent \in {None} \cup Ids :
       NewService("Service", NameOf(Len(svc) + 1), parent, {})
  /\ call' = Called("new", Len(svc) + 1, "returned")

MergeStopped ==
  /\ Building
  /\ Len(svc) < MaxSharedNodes
  /\ \E x \in Ids, y \in Ids :
       /\ Add(x, y)
       /\ call' = [Called("add", Len(svc) + 1, "returned") EXCEPT !.operands = <<x, y>>]

StartStopped == \E n \in Ids : Building /\ StartCall(n)

NextShared ==
  \/ ConstructStopped
  \/ MergeStopped
  \/ StartStopped
  \/ Raise
  \/ Step

SpecShared == Init /\ [][NextShared]_vars

\* the step unwinds a start() that was called on n with every node stopped:
\* the loop of n had called the start() of its k-th child, and that call
\* failed, in the child's own override or further down
StartFailsBelow(n, k) ==
  /\ Len(stack) >= 2
  /\ stack[1].op = "start" /\ stack[1].node = n /\ stack[1].i = k + 1
  /\ call'.status = "raised"

\* C21: when start() on node n (every node stopped beforehand) reaches a
\* child ci whose start() fails, the error reaches the caller of n.start(),
\* nothing is rolled back, so that n and the siblings before ci in insertion
\* order are running, and no sibling after ci in insertion order has been
\* started.
C21_StartFailurePropagates ==
  [][\A n \in Ids : \A k \in 1..Len(svc[n].children) :
       StartFailsBelow(n, k) =>
         LET kids == Values(svc[n].children)
         IN /\ stack' = <<>>
            /\ svc' = svc
            /\ svc'[n].running
            /\ \A i \in 1..(k - 1) : svc'[kids[i]].running
            /\ \A i \in (k + 1)..Len(kids) : ~svc'[kids[i]].running]_vars

\* C24: start() on a node n sets n.running before any child is started,
\* starts the children one at a time in insertion order and returns only after
\* every child's start() has returned; so, every node being stopped
\* beforehand, in every intermediate state of the call n is running and the
\* running children of n form a prefix of n's insertion order.
C24_RunningChildrenFormPrefix ==
  (stack # <<>> /\ stack[1].op = "start" /\ stack[1].pc # "enter") =>
    LET n == stack[1].node
        kids == Values(svc[n].children)
    IN /\ svc[n].running
       /\ \E k \in 0..Len(kids) : \A i \in 1..Len(kids) : svc[kids[i]].running <=> i <= k

\* ------------------------------------------------ running below stopped
\* C26 as stated: after any sequence of completed start() and stop() calls on
\* arbitrary nodes, and after any merge of nodes in arbitrary running states,
\* no node is running while its parent is stopped.
C26_NoneRunningBelowStopped ==
  stack = <<>> =>
    \A d \in Ids :
      (svc[d].parent # None /\ svc[d].running) => svc[svc[d].parent].running

\* C26 amended: a completed start() or stop() on node n leaves no node held
\* in the subtree of n running while the node that holds it is stopped; above
\* n nothing is guaranteed.
C26_NoneRunningBelowStoppedInSubtree ==
  (Returned("start") \/ Returned("stop")) =>
    \A p \in Subtree(call.node) : \A c \in ChildSet(p) :
      svc[c].running => svc[p].running

\* start() has returned on a node that holds a child and whose own parent is
\* stopped: its subtree runs below a stopped node
C26_Witness ==
  /\ Returned("start")
  /\ ChildSet(call.node) # {}
  /\ AllRunning(Subtree(call.node))
  /\ svc[call.node].parent # None
  /\ ~svc[svc[call.node].parent].running

\* --------------------------------------------- composite and plain service
\* c is a composite with members and s a plain service that is not one of them
CompositeAndPlain(c, s) ==
  /\ IsMerged(c) /\ ~IsMerged(s)
  /\ Members(c) # <<>>
  /\ s \notin SeqSet(Members(c))

\* the composite is single-level with exactly the listed members
HasMembers(c, list) ==
  /\ IsMerged(c)
  /\ Members(c) = list
  /\ ChildSet(c) = SeqSet(list)
  /\ \A m \in SeqSet(list) : ~IsMerged(m)

\* resolving on r a name that s defines yields the attribute of s
PlainWins(r, s) ==
  \A name \in Caps : name \in svc[s].attrs => GetAttr(r, name) = Found("attr", s)

\* resolving on r a name that members of c define yields the attribute of the
\* last of them
LastMemberWins(r, c) ==
  \A name \in Caps :
    Exposing(c, name) # {} =>
      GetAttr(r, name) = GetAttr(Members(c)[Max(Exposing(c, name))], name)

\* C25 as stated: merging a composite C (members m1..mk) with a plain service
\* s, in either operand order, C + s or s + C, yields a single-level composite
\* whose member list is m1..mk followed by s, so that s, being last, has the
\* highest resolution priority in both cases.
C25_PlainLastEitherOrder ==
  call.op = "add" =>
    LET x == call.operands[1]
        y == call.operands[2]
        r == call.node
    IN /\ CompositeAndPlain(x, y) =>
            HasMembers(r, Members(x) \o <<y>>) /\ PlainWins(r, y)
       /\ CompositeAndPlain(y, x) =>
            HasMembers(r, Members(y) \o <<x>>) /\ PlainWins(r, x)

\* C25 amended: the member list follows the operand order.  C + s yields the
\* single-level composite m1..mk, s, in which s has the highest resolution
\* priority; s + C yields s, m1..mk, in which s is the primary and has the
\* lowest priority, the last member of C the highest.
C25_MembersInOperandOrder ==
  call.op = "add" =>
    LET x == call.operands[1]
        y == call.operands[2]
        r == call.node
    IN /\ CompositeAndPlain(x, y) =>
            HasMembers(r, Members(x) \o <<y>>) /\ PlainWins(r, y)
       /\ CompositeAndPlain(y, x) =>
            /\ HasMembers(r, <<x>> \o Members(y))
            /\ LastMemberWins(r, y)
            /\ svc[r].name = svc[x].name

\* s + C has just been formed for a composite C of two members: s is the
\* first of three members, and a name that s and the last member of C both
\* define resolves to the attribute of that member
C25_Witness ==
  /\ call.op = "add"
  /\ CompositeAndPlain(call.operands[2], call.operands[1])
  /\ Len(Members(call.operands[2])) = 2
  /\ Members(call.node)[1] = call.operands[1]
  /\ Len(Members(call.node)) = 3
  /\ \E name \in Caps :
       /\ name \in svc[call.operands[1]].attrs
       /\ name \in svc[Members(call.node)[3]].attrs
       /\ GetAttr(call.node, name) = Found("attr", Members(call.node)[3])

\* ------------------------------------------------- flattening of a merge
\* the members of x, or x itself when it is plain
Flat(x) == IF IsMerged(x) THEN Members(x) ELSE <<x>>

\* C27: merging is flattening for every pair of operands: for any services x
\* and y, each plain or already a composite (and with no service in common),
\* x + y is a composite none of whose members is itself a composite, and its
\* members are exactly the members of x (or x itself when plain) followed by
\* the members of y (or y itself when plain).
C27_MergeFlattensEveryPair ==
  (/\ call.op = "add"
   /\ Len(call.operands) = 2
   /\ SeqSet(Flat(call.operands[1])) \cap SeqSet(Flat(call.operands[2])) = {}) =>
    /\ IsMerged(call.node)
    /\ Members(call.node) = Flat(call.operands[1]) \o Flat(call.operands[2])
    /\ \A m \in SeqSet(Members(call.node)) : ~IsMerged(m)

\* ----------------------------------------------------- paths of members
\* node m is currently a member of composite c
MemberOf(m, c) == IsMerged(c) /\ svc[m].parent = c /\ m \in SeqSet(Members(c))

\* C22: the members of a composite share one visible path: full_path() of
\* every member, the primary included, equals full_path() of the composite,
\* wherever the composite sits in the tree.
C22_MembersShareOnePath ==
  call.op = "full_path" =>
    \A c \in Ids : MemberOf(call.node, c) => call.result.str = full_path(c)

\* ------------------------------------------------- the query operations
\* Trees of services named a, b, a, b, ...; start() and stop() run to
\* completion between two queries; status(), get_all_statuses() and
\* full_path() are asked of every node.
MaxQueryNodes == 4

DictResult(map) == [ok |-> TRUE, kind |-> "dict", ref |-> None, map |-> map]

\* a report that also lists the node itself
get_all_statusesWithSelf(n) ==
  <<[key |-> svc[n].name, val |-> status(n)]>>
  \o [i \in 1..Len(svc[n].children) |->
        [key |-> svc[n].children[i].key, val |-> status(svc[n].children[i].ref)]]

\* Service.get_all_statuses: one entry per item of self.children, in
\* insertion order; the keys of a dict are distinct, so no entry is replaced
get_all_statuses(n) ==
  [i \in 1..Len(svc[n].children) |->
     [key |-> svc[n].children[i].key, val |-> status(svc[n].children[i].ref)]]

ConstructNamed ==
  /\ Len(svc) < MaxQueryNodes
  /\ \E parent \in {None} \cup Ids :
       NewService("Service", NameOf(Len(svc) + 1), parent, {})
  /\ call' = [Called("new", Len(svc) + 1, "returned") EXCEPT !.full = FALSE]

StartDone ==
  \E n \in Ids :
    StartNow(n) /\ call' = [Called("start", n, "returned") EXCEPT !.full = FALSE]

StopDone ==
  \E n \in Ids :
    StopNow(n) /\ call' = [Called("stop", n, "returned") EXCEPT !.full = FALSE]

AskStatus ==
  \E n \in Ids :
    /\ stack = <<>>
    /\ call' = [Called("status", n, "returned")
                  EXCEPT !.full = FALSE, !.result = StrResult(<<status(n)>>)]
    /\ UNCHANGED <<svc, stack, tasks>>

AskAllStatuses ==
  \E n \in Ids :
    /\ stack = <<>>
    /\ call' = [Called("get_all_statuses", n, "returned")
                  EXCEPT !.full = FALSE, !.result = DictResult(get_all_statuses(n))]
    /\ UNCHANGED <<svc, stack, tasks>>

NextQuery ==
  \/ ConstructNamed
  \/ StartDone
  \/ StopDone
  \/ AskStatus
  \/ AskAllStatuses
  \/ AskPath

SpecQuery == Init /\ [][NextQuery]_vars

\* the step is a call of get_all_statuses()
AskingAll == call'.op = "get_all_statuses" /\ call' # call

\* C23: get_all_statuses() on a node returns a mapping whose keys are exactly
\* the keys of the node's direct children and whose value for each key is
\* that child's current status(); it has no further entry, for the node
\* itself or for a grandchild, and it changes no running flag.
C23_StatusesOfDirectChildren ==
  [][AskingAll =>
       LET n == call'.node
           map == call'.result.map
           kids == svc[n].children
       IN /\ {map[i].key : i \in 1..Len(map)} = {kids[i].key : i \in 1..Len(kids)}
          /\ Len(map) = Len(kids)
          /\ \A i \in 1..Len(map) : map[i].val = status(DictGet(kids, map[i].key))
          /\ \A d \in Ids : svc'[d].running = svc[d].running
          /\ svc' = svc]_vars

\* the statuses of a stopped node with two children were asked for: one child
\* runs, the other does not, and the running child has a child of its own
C23_Witness ==
  /\ call.op = "get_all_statuses"
  /\ ~svc[call.node].running
  /\ Len(call.result.map) = 2
  /\ \E i, j \in 1..2 :
       /\ call.result.map[i].val = "running"
       /\ call.result.map[j].val = "stopped"
       /\ ChildSet(svc[call.node].children[i].ref) # {}

\* the operations that C28 is about
LifecycleOps == {"start", "stop"}

QueryOps == {"status", "get_all_statuses", "full_path"}

\* C28: start() and stop() on a node n change the running flag of n and of
\* n's descendants only: the flag of every ancestor, sibling and other node
\* outside n's subtree is unchanged; and no node's name, path segment, parent
\* or children map is changed by start(), stop(), status(),
\* get_all_statuses() or full_path(), the queries changing no flag either.
C28_FrameOfLifecycleAndQueries ==
  [][call'.op \in LifecycleOps \cup QueryOps =>
       /\ Len(svc') = Len(svc)
       /\ \A d \in Ids :
            /\ svc'[d].name = svc[d].name
            /\ svc'[d].path = svc[d].path
            /\ svc'[d].parent = svc[d].parent
            /\ svc'[d].children = svc[d].children
            /\ (call'.op \in QueryOps \/ d \notin Subtree(call'.node)) =>
                 svc'[d].running = svc[d].running]_vars

\* stop() has returned on a node with a child whose parent and sibling were
\* running: the subtree is stopped, the parent and the sibling still run
C28_Witness ==
  /\ Returned("stop")
  /\ LET n == call.node
         p == svc[n].parent
     IN /\ ChildSet(n) # {}
        /\ NoneRunning(Subtree(n))
        /\ p # None
        /\ svc[p].running
        /\ \E sib \in ChildSet(p) \ {n} : svc[sib].running

\* ---------------------------------------------- stop() and the polling loop
\* The run scheduler with base start/stop/run over services named a, b, a,
\* ..., remembering in unseen the runs of leaves that were suspended when a
\* stop() was issued on their node.
MaxPollNodes == 3

PollCalled(op, n, unseen) ==
  [op |-> op, node |-> n, status |-> "returned", by |-> None, full |-> FALSE,
   arg |-> EmptyStr, operands |-> <<>>, result |-> NoResult, unseen |-> unseen]

\* the runs suspended in the polling loop of node n
Suspended(n) ==
  {t \in Tasks : tasks[t].node = n /\ tasks[t].kids = <<>>
                   /\ tasks[t].pc \in {"sleeping", "ready"}}

InitPoll ==
  /\ svc = <<>>
  /\ stack = <<>>
  /\ call = PollCalled("none", None, {})
  /\ tasks = <<>>

ConstructPoll ==
  /\ Len(svc) < MaxPollNodes
  /\ \E parent \in {None} \cup Ids :
       NewService("Service", NameOf(Len(svc) + 1), parent, {})
  /\ UNCHANGED call

StartPoll ==
  \E n \in Ids : StartNow(n) /\ call' = PollCalled("start", n, call.unseen)

StopPoll ==
  \E n \in Ids :
    StopNow(n) /\ call' = PollCalled("stop", n, call.unseen \cup Suspended(n))

NextPoll ==
  \/ ConstructPoll
  \/ StartPoll
  \/ StopPoll
  \/ \E n \in Ids : RunCall(n)
  \/ \E t \in Tasks : TaskStart(t)
  \/ \E t \in Tasks : TimerFire(t)
  \/ \E t \in Tasks : Resume(t)
  \/ \E t \in Tasks : TaskJoin(t)

SpecPoll == InitPoll /\ [][NextPoll]_vars

\* the step is the next check of run t after its sleep
Checks(t) == tasks[t].pc = "ready" /\ tasks'[t].pc # "ready"

\* C29 as stated: a stop() on a leaf whose run() is in progress ends that
\* run() even when the leaf is started again before the run next re-checks
\* the flag: every stop() issued while run() is suspended is observed by that
\* run(), which returns at its next check.
C29_EveryStopObserved ==
  [][\A t \in Tasks :
       (t \in call.unseen /\ Checks(t)) => tasks'[t].pc = "done"]_vars

\* C29 amended: the run() of a leaf that was suspended when stop() was issued
\* on the leaf returns at its next check unless the leaf is running again at
\* that check; what run() observes is the value of the flag at the check.
C29_StopObservedUnlessRestarted ==
  [][\A t \in Tasks :
       (t \in call.unseen /\ Checks(t)) =>
         \/ tasks'[t].pc = "done"
         \/ svc[tasks[t].node].running /\ tasks'[t].pc = "sleeping"]_vars

\* a run() that was suspended in its polling loop when stop() was issued on
\* its leaf has returned, the leaf being stopped
C29_Witness ==
  \E t \in Tasks :
    /\ t \in call.unseen
    /\ tasks[t].pc = "done"
    /\ tasks[t].slept
    /\ ~svc[tasks[t].node].running

\* -------------------------------------------- children registered during run
\* the nodes whose run() the run t launched, in the order of its gather
KidNodes(t) == [i \in 1..Len(tasks[t].kids) |-> tasks[tasks[t].kids[i]].node]

\* the step ends run t
Ends(t) == InProgress(t) /\ ~InProgress(t)'

\* the children of the node of run t for which t launched no run()
Undriven(t) == ChildSet(tasks[t].node) \ SeqSet(KidNodes(t))

\* C30 as stated: a run() in progress on a node drives every child the node
\* currently has: a child registered under the node after its run() began,
\* whether the node had children then or was a leaf in its polling loop, has
\* its run() launched and awaited by that same run() before it returns.
C30_DrivesCurrentChildren ==
  [][\A t \in Tasks :
       Ends(t) =>
         \A c \in ChildSet(tasks[t].node) :
           \E i \in 1..Len(tasks[t].kids) :
             /\ tasks[tasks[t].kids[i]].node = c
             /\ tasks'[tasks[t].kids[i]].pc \in Ended]_vars

\* C30 amended: a run() drives the children that the node has when the run()
\* begins to execute, one run() per child in insertion order, and that list
\* never changes afterwards; it returns when each of those has returned, or,
\* having begun on a node without children, at a check that finds the node
\* stopped.  A child registered later is not launched by that run().
C30_DrivesChildrenAtStart ==
  [][\A t \in Tasks :
       /\ (tasks[t].pc = "created" /\ tasks'[t].pc # "created") =>
            KidNodes(t)' = Values(svc[tasks[t].node].children)
       /\ tasks[t].pc # "created" => tasks'[t].kids = tasks[t].kids
       /\ Ends(t) =>
            IF tasks[t].kids = <<>> THEN ~svc[tasks[t].node].running
            ELSE \A i \in 1..Len(tasks[t].kids) : tasks'[tasks[t].kids[i]].pc = "done"]_vars

\* the run() of a node that had a child when it began has returned after the
\* run of that child, and the node holds a further child for which no run()
\* was launched
C30_Witness ==
  \E t \in Tasks :
    /\ tasks[t].pc = "done"
    /\ tasks[t].kids # <<>>
    /\ \A i \in 1..Len(tasks[t].kids) : tasks[tasks[t].kids[i]].pc = "done"
    /\ Undriven(t) # {}

\* the run() of a node that was a leaf when it began is still polling while
\* the node holds a child
C30_LeafWitness ==
  \E t \in Tasks :
    /\ tasks[t].kids = <<>>
    /\ tasks[t].pc = "sleeping"
    /\ ChildSet(tasks[t].node) # {}

====
